---- MODULE Spec2Model ----
(***************************************************************************)
(* Model of the Auralis audio-scene service: the rule-based fusion         *)
(* function analyze_audio of src/app.py and the /analyze request handlers. *)
(* Python strings are tuples of one-character strings, so that lower() and *)
(* the substring test `w in text` are computed, not assumed.  A dict is a  *)
(* tuple of <<key, value>> pairs in insertion order with distinct keys.    *)
(* Confidences and scores are in thousandths (0.85 is 850).                *)
(***************************************************************************)
EXTENDS Integers, Sequences, FiniteSets, TLC

\* ---------------------------------------------------------------- bounds
MaxTextWords == 2
MaxSounds == 2
MaxFlowTexts == 3
NumClips == 4
MaxRequests == 2
MaxHistory == 2

\* ------------------------------------------------------- Python builtins
UpperLetters == <<"A","B","C","D","E","F","G","H","I","J","K","L","M","N","O","P","Q","R","S","T","U","V","W","X","Y","Z">>
LowerLetters == <<"a","b","c","d","e","f","g","h","i","j","k","l","m","n","o","p","q","r","s","t","u","v","w","x","y","z">>

\* the lower-case letter of every upper-case letter
ToLower ==
    [c \in { UpperLetters[i] : i \in 1..26 } |->
        LowerLetters[CHOOSE i \in 1..26 : UpperLetters[i] = c]]

\* str.lower() on one character
LowerChar(c) == IF c \in DOMAIN ToLower THEN ToLower[c] ELSE c

\* lower() leaving every character as it is
Lower_Identity(s) == s

\* str.lower()
Lower(s) == [i \in 1..Len(s) |-> LowerChar(s[i])]

\* `w in s` for two strings: w occurs as a substring of s
Contains(w, s) ==
    \E i \in 0..(Len(s) - Len(w)) : SubSeq(s, i + 1, i + Len(w)) = w

\* `x in lst` for a list: some element equals x
InList(x, lst) == \E i \in 1..Len(lst) : lst[i] = x

\* any(w in s for w in words)
AnyWordIn(words, s) == \E i \in 1..Len(words) : Contains(words[i], s)

\* any(s in lst for s in words)
AnyInList(words, lst) == \E i \in 1..Len(words) : InList(words[i], lst)

\* dict.keys(), in insertion order
Keys(d) == [i \in 1..Len(d) |-> d[i][1]]

\* sep.join(lst)
RECURSIVE Join(_, _)
Join(sep, lst) ==
    IF Len(lst) = 0 THEN << >>
    ELSE IF Len(lst) = 1 THEN lst[1]
    ELSE lst[1] \o sep \o Join(sep, Tail(lst))

Max(a, b) == IF a >= b THEN a ELSE b

\* round(x, 2) on a value in thousandths
Round2(x) == ((x + 5) \div 10) * 10

Digit(n) == <<"0","1","2","3","4","5","6","7","8","9">>[n + 1]

\* str() of a float below 10 given in thousandths: 850 is "0.85", 0 is "0.0"
FloatStr(x) ==
    LET f == x % 1000
        frac == IF f = 0 THEN <<"0">>
                ELSE IF f % 100 = 0 THEN <<Digit(f \div 100)>>
                ELSE IF f % 10 = 0 THEN <<Digit(f \div 100), Digit((f \div 10) % 10)>>
                ELSE <<Digit(f \div 100), Digit((f \div 10) % 10), Digit(f % 10)>>
    IN  <<Digit(x \div 1000), ".">> \o frac

\* ------------------------------------------- analyze_audio of src/app.py
airport_words == << <<"f","l","i","g","h","t">>, <<"b","o","a","r","d","i","n","g">>, <<"g","a","t","e">>, <<"a","i","r","p","o","r","t">> >>
rail_words == << <<"t","r","a","i","n">>, <<"p","l","a","t","f","o","r","m">>, <<"c","o","a","c","h">> >>
emergency_words == << <<"h","e","l","p">>, <<"f","i","r","e">>, <<"e","m","e","r","g","e","n","c","y">>, <<"p","o","l","i","c","e">>, <<"a","c","c","i","d","e","n","t">> >>
emergency_sounds == << <<"s","i","r","e","n">>, <<"s","c","r","e","a","m">>, <<"a","l","a","r","m">>, <<"g","l","a","s","s">>, <<"s","h","o","u","t","i","n","g">> >>
public_sounds == << <<"c","r","o","w","d">>, <<"c","o","n","v","e","r","s","a","t","i","o","n">> >>
vehicle_sounds == << <<"v","e","h","i","c","l","e">>, <<"e","n","g","i","n","e">>, <<"t","r","a","f","f","i","c">>, <<"h","o","r","n">> >>

\* is_emergency_text
IsEmergencyText(text) == AnyWordIn(emergency_words, text)

\* the sound test with list membership in place of containment
IsEmergencySound_ExactMatch(sound_labels) == AnyInList(emergency_sounds, sound_labels)

\* is_emergency_sound: any(any(es in s for es in emergency_sounds) for s in sound_labels)
IsEmergencySound(sound_labels) ==
    \E i \in 1..Len(sound_labels) : AnyWordIn(emergency_sounds, sound_labels[i])

\* the airport test without its sound half
AirportTest_TextOnly(text, sound_labels) == AnyWordIn(airport_words, text)

\* the road test looking at the strongest label only
RoadTest_TopLabelOnly(sound_labels) ==
    Len(sound_labels) > 0 /\ InList(sound_labels[1], vehicle_sounds)

\* the tests of the if/elif chain
AirportTest(text, sound_labels) ==
    AnyWordIn(airport_words, text) /\ AnyInList(public_sounds, sound_labels)
RailwayTest(text, sound_labels) ==
    AnyWordIn(rail_words, text) /\ AnyInList(public_sounds, sound_labels)
RoadTest(sound_labels) == AnyInList(vehicle_sounds, sound_labels)

\* what each branch of the chain assigns: location, situation, evidence, confidence
AirportOutcome ==
    [location |-> <<"A","i","r","p","o","r","t">>, situation |-> <<"B","o","a","r","d","i","n","g">>,
     evidence |-> << <<"F","l","i","g","h","t","-","r","e","l","a","t","e","d"," ","s","p","e","e","c","h">>, <<"P","u","b","l","i","c"," ","c","r","o","w","d"," ","s","o","u","n","d","s">> >>,
     confidence |-> 850]
RailwayOutcome ==
    [location |-> <<"R","a","i","l","w","a","y"," ","S","t","a","t","i","o","n">>, situation |-> <<"W","a","i","t","i","n","g"," ","/"," ","B","o","a","r","d","i","n","g">>,
     evidence |-> << <<"T","r","a","i","n","-","r","e","l","a","t","e","d"," ","s","p","e","e","c","h">>, <<"C","r","o","w","d"," ","s","o","u","n","d","s">> >>,
     confidence |-> 800]
RoadOutcome ==
    [location |-> <<"R","o","a","d">>, situation |-> <<"T","r","a","f","f","i","c">>,
     evidence |-> << <<"V","e","h","i","c","l","e"," ","s","o","u","n","d","s"," ","d","e","t","e","c","t","e","d">> >>,
     confidence |-> 700]
\* the defaults with the confidence of the error response
DefaultOutcome_ZeroConfidence ==
    [location |-> <<"U","n","k","n","o","w","n">>, situation |-> <<"U","n","k","n","o","w","n">>,
     evidence |-> << >>, confidence |-> 0]

\* the defaults set before the chain
DefaultOutcome ==
    [location |-> <<"U","n","k","n","o","w","n">>, situation |-> <<"U","n","k","n","o","w","n">>,
     evidence |-> << >>, confidence |-> 300]

\* the chain with the railway branch tested first
LocationRules_RailwayFirst(text, sound_labels) ==
    IF RailwayTest(text, sound_labels) THEN RailwayOutcome
    ELSE IF AirportTest(text, sound_labels) THEN AirportOutcome
    ELSE IF RoadTest(sound_labels) THEN RoadOutcome
    ELSE DefaultOutcome

\* the if/elif chain
LocationRules(text, sound_labels) ==
    IF AirportTest(text, sound_labels) THEN AirportOutcome
    ELSE IF RailwayTest(text, sound_labels) THEN RailwayOutcome
    ELSE IF RoadTest(sound_labels) THEN RoadOutcome
    ELSE DefaultOutcome

\* the keyword override that follows the chain
KeywordOverride(text, r) ==
    IF AnyWordIn(emergency_words, text)
    THEN [r EXCEPT !.situation = <<"E","m","e","r","g","e","n","c","y">>,
                   !.evidence = Append(@, <<"E","m","e","r","g","e","n","c","y"," ","k","e","y","w","o","r","d","s"," ","d","e","t","e","c","t","e","d">>),
                   !.confidence = Max(@, 900)]
    ELSE r

Summary(r) ==
    <<"T","h","i","s"," ","a","u","d","i","o"," ","l","i","k","e","l","y"," ","c","o","m","e","s"," ","f","r","o","m"," ","a"," ">> \o Lower(r.location) \o <<" ","d","u","r","i","n","g"," ">>
    \o Lower(r.situation) \o <<","," ","i","n","f","e","r","r","e","d"," ","f","r","o","m"," ">> \o Join(<<" ">>, r.evidence)
    \o <<" ","w","i","t","h"," ","a"," ","c","o","n","f","i","d","e","n","c","e"," ","o","f"," ">> \o FloatStr(r.confidence) \o <<".">>

\* the emergency return with the location of the error response
EmergencyResult_UnknownLocation(r, text, sound_labels) ==
    [location |-> <<"U","n","k","n","o","w","n">>,
     situation |-> <<"E","m","e","r","g","e","n","c","y">>,
     confidence |-> 950,
     confidence_reason |-> <<"H","i","g","h"," ","c","o","n","f","i","d","e","n","c","e"," ","d","u","e"," ","t","o"," ","p","r","e","s","e","n","c","e"," ","o","f"," ","e","m","e","r","g","e","n","c","y"," ","k","e","y","w","o","r","d","s"," ","o","r"," ","s","o","u","n","d","s",".">>,
     evidence |-> sound_labels,
     summary |-> <<"E","m","e","r","g","e","n","c","y"," ","s","i","t","u","a","t","i","o","n"," ","d","e","t","e","c","t","e","d"," ","b","a","s","e","d"," ","o","n"," ","d","i","s","t","r","e","s","s"," ","s","i","g","n","a","l","s"," ","i","n"," ","t","h","e"," ","a","u","d","i","o",".">>,
     transcribed |-> text]

\* the emergency return with the evidence the rules collected
EmergencyResult_RuleEvidence(r, text, sound_labels) ==
    [location |-> r.location,
     situation |-> <<"E","m","e","r","g","e","n","c","y">>,
     confidence |-> 950,
     confidence_reason |-> <<"H","i","g","h"," ","c","o","n","f","i","d","e","n","c","e"," ","d","u","e"," ","t","o"," ","p","r","e","s","e","n","c","e"," ","o","f"," ","e","m","e","r","g","e","n","c","y"," ","k","e","y","w","o","r","d","s"," ","o","r"," ","s","o","u","n","d","s",".">>,
     evidence |-> r.evidence,
     summary |-> <<"E","m","e","r","g","e","n","c","y"," ","s","i","t","u","a","t","i","o","n"," ","d","e","t","e","c","t","e","d"," ","b","a","s","e","d"," ","o","n"," ","d","i","s","t","r","e","s","s"," ","s","i","g","n","a","l","s"," ","i","n"," ","t","h","e"," ","a","u","d","i","o",".">>,
     transcribed |-> text]

\* the return of the emergency case
EmergencyResult(r, text, sound_labels) ==
    [location |-> r.location,
     situation |-> <<"E","m","e","r","g","e","n","c","y">>,
     confidence |-> 950,
     confidence_reason |-> <<"H","i","g","h"," ","c","o","n","f","i","d","e","n","c","e"," ","d","u","e"," ","t","o"," ","p","r","e","s","e","n","c","e"," ","o","f"," ","e","m","e","r","g","e","n","c","y"," ","k","e","y","w","o","r","d","s"," ","o","r"," ","s","o","u","n","d","s",".">>,
     evidence |-> sound_labels,
     summary |-> <<"E","m","e","r","g","e","n","c","y"," ","s","i","t","u","a","t","i","o","n"," ","d","e","t","e","c","t","e","d"," ","b","a","s","e","d"," ","o","n"," ","d","i","s","t","r","e","s","s"," ","s","i","g","n","a","l","s"," ","i","n"," ","t","h","e"," ","a","u","d","i","o",".">>,
     transcribed |-> text]

\* the ordinary return with the transcript under the key "transcribe"
NormalResult_TranscribeKey(r, text) ==
    [location |-> r.location,
     situation |-> r.situation,
     confidence |-> Round2(r.confidence),
     evidence |-> r.evidence,
     summary |-> Summary(r),
     transcribe |-> text]

\* the return of every other case
NormalResult(r, text) ==
    [location |-> r.location,
     situation |-> r.situation,
     confidence |-> Round2(r.confidence),
     evidence |-> r.evidence,
     summary |-> Summary(r),
     transcribed |-> text]

\* the final test looking at the sounds only: an emergency word leaves the
\* function through the ordinary return
analyze_audio_SoundEmergencyOnly(text_in, sounds_in) ==
    LET text == Lower(text_in)
        sound_labels == [i \in 1..Len(sounds_in) |-> Lower(Keys(sounds_in)[i])]
        r == KeywordOverride(text, LocationRules(text, sound_labels))
    IN  IF IsEmergencySound(sound_labels)
        THEN EmergencyResult(r, text, sound_labels)
        ELSE NormalResult(r, text)

analyze_audio(text_in, sounds_in) ==
    LET text == Lower(text_in)
        sound_labels == [i \in 1..Len(sounds_in) |-> Lower(Keys(sounds_in)[i])]
        r == KeywordOverride(text, LocationRules(text, sound_labels))
    IN  IF IsEmergencyText(text) \/ IsEmergencySound(sound_labels)
        THEN EmergencyResult(r, text, sound_labels)
        ELSE NormalResult(r, text)

\* ------------------------------------------------------ bounded inputs
\* words a transcript is made of
Vocabulary == { <<"F","l","i","g","h","t">>, <<"T","r","a","i","n">>, <<"H","E","L","P">>, <<"i","n","v","e","s","t","i","g","a","t","e">>, <<"h","e","l","l","o">> }

RECURSIVE TextsOf(_)
TextsOf(n) ==
    IF n = 0 THEN { << >> }
    ELSE LET shorter == TextsOf(n - 1)
         IN  shorter \cup Vocabulary
             \cup { t \o <<" ">> \o w : t \in shorter \ { << >> }, w \in Vocabulary }

Texts == TextsOf(MaxTextWords)

\* sound labels of the AudioSet class map
LabelPool == { <<"C","r","o","w","d">>, <<"C","o","n","v","e","r","s","a","t","i","o","n">>, <<"V","e","h","i","c","l","e">>, <<"E","n","g","i","n","e">>,
               <<"T","r","a","f","f","i","c"," ","n","o","i","s","e",","," ","r","o","a","d","w","a","y"," ","n","o","i","s","e">>, <<"S","c","r","e","a","m","i","n","g">>, <<"S","p","e","e","c","h">> }

\* dicts of at most n distinct labels; the score falls with the position
RECURSIVE LabelLists(_)
LabelLists(n) ==
    IF n = 0 THEN { << >> }
    ELSE LET shorter == LabelLists(n - 1)
         IN  shorter \cup { Append(l, k) : l \in shorter, k \in LabelPool }

DistinctKeys(l) == \A i, j \in 1..Len(l) : i # j => l[i] # l[j]

SoundDicts ==
    { [i \in 1..Len(l) |-> <<l[i], 900 - 100 * i>>] :
        l \in { m \in LabelLists(MaxSounds) : DistinctKeys(m) } }

\* transcripts the speech model returns in the request flow
FlowTextList == << <<" ","F","l","i","g","h","t">>, <<"H","E","L","P">>, << >>, <<" ","T","r","a","i","n">>, <<"h","e","l","l","o">>, <<"i","n","v","e","s","t","i","g","a","t","e">>,
                   <<" ","F","l","i","g","h","t"," ","T","r","a","i","n">>, <<" ","p","o","l","i","c","e">> >>
FlowTexts ==
    { FlowTextList[i] :
        i \in 1..(IF MaxFlowTexts < Len(FlowTextList) THEN MaxFlowTexts ELSE Len(FlowTextList)) }

\* names of the uploaded file
FileNames == { <<"c","l","i","p",".","w","a","v">>, <<"T","a","l","k",".","M","4","A">>, <<"a","u","d","i","o">>, << >> }

\* the class map: row i of the CSV gives the label of score column i
labels == << <<"S","p","e","e","c","h">>, <<"M","u","s","i","c">>, <<"C","o","n","v","e","r","s","a","t","i","o","n">>, <<"S","i","l","e","n","c","e">>, <<"C","r","o","w","d">>, <<"W","i","n","d">>,
             <<"V","e","h","i","c","l","e">>, <<"A","n","i","m","a","l">>, <<"E","n","g","i","n","e">>, <<"W","a","t","e","r">>,
             <<"T","r","a","f","f","i","c"," ","n","o","i","s","e",","," ","r","o","a","d","w","a","y"," ","n","o","i","s","e">>, <<"I","n","s","i","d","e",","," ","s","m","a","l","l"," ","r","o","o","m">>,
             <<"A","i","r","c","r","a","f","t">>, <<"B","i","r","d">>, <<"S","i","r","e","n">>, <<"R","a","i","n">>, <<"S","c","r","e","a","m","i","n","g">>, <<"T","y","p","i","n","g">>,
             <<"G","l","a","s","s">>, <<"W","a","l","k",","," ","f","o","o","t","s","t","e","p","s">>, <<"C","a","r"," ","a","l","a","r","m">>, <<"T","e","l","e","v","i","s","i","o","n">> >>

\* uploads: clip c gives every label its own mean score, in thousandths
Clips == 1..NumClips
MeanScores(c) ==
    [i \in 1..Len(labels) |->
        (20 + 5 * (c % 5))
            * ((i * (((3 * c + 9) % Len(labels)) + 1)) % (Len(labels) + 1))]

\* ------------------------------------------------------------- state
VARIABLES
    arg_text, arg_sounds, ret,  \* a direct call of analyze_audio
    handler,    \* which app's /analyze serves the request in progress
    filename,   \* file.filename of the upload
    pc,         \* the handler's position
    req,        \* requests received so far; names the request's uuid
    disk,       \* the temp files that exist
    text,       \* the transcript
    audio,      \* the loaded clip
    sounds,     \* the sounds the classifier step leaves
    audio_path, \* the file the models read (chat gpt/app.py)
    verdict,    \* location and situation held before the return (chat gpt/app.py)
    error,      \* the exception being handled
    response,   \* what the request answers with
    log,        \* the steps of the request, in order
    users,      \* the rows of table users of auralis_users.db
    history,    \* the rows of table history of auralis_users.db
    posted,     \* the body of the last /login or /save_history request
    answer      \* what that request answered with

callVars == <<arg_text, arg_sounds, ret>>
flowVars == <<handler, filename, pc, req, disk, text, audio, sounds, audio_path,
              verdict, error, response, log>>
dbVars == <<users, history, posted, answer>>
vars == <<arg_text, arg_sounds, ret, handler, filename, pc, req, disk, text, audio,
          sounds, audio_path, verdict, error, response, log, users, history, posted,
          answer>>

NoResult == [none |-> TRUE]
None == << "None" >>

FlowIdle ==
    /\ handler = "none"
    /\ filename = None
    /\ pc = "idle"
    /\ req = 0
    /\ disk = {}
    /\ text = None
    /\ audio = 0
    /\ sounds = None
    /\ audio_path = None
    /\ verdict = None
    /\ error = None
    /\ response = NoResult
    /\ log = << >>

\* ---------------------------------------- direct calls of analyze_audio
\* a fresh database after init_db, no request posted
DbIdle ==
    /\ users = {}
    /\ history = << >>
    /\ posted = None
    /\ answer = NoResult

FusionInit ==
    /\ arg_text \in Texts
    /\ arg_sounds \in SoundDicts
    /\ ret = NoResult
    /\ FlowIdle
    /\ DbIdle

CallAnalyzeAudio ==
    /\ ret = NoResult
    /\ ret' = analyze_audio(arg_text, arg_sounds)
    /\ UNCHANGED <<arg_text, arg_sounds>>
    /\ UNCHANGED flowVars
    /\ UNCHANGED dbVars

FusionNext == CallAnalyzeAudio

FusionSpec == FusionInit /\ [][FusionNext]_vars

\* ------------------------------------------------------- numpy helpers
\* np.argsort(s): the indices in ascending order of score
ArgSort(s) ==
    LET rank(i) == 1 + Cardinality({ j \in 1..Len(s) :
                        s[j] < s[i] \/ (s[j] = s[i] /\ j < i) })
    IN  [p \in 1..Len(s) |-> CHOOSE i \in 1..Len(s) : rank(i) = p]

\* a[-n:]
LastN(a, n) == SubSeq(a, Max(1, Len(a) - n + 1), Len(a))
\* a[:n]
FirstN(a, n) == SubSeq(a, 1, IF n < Len(a) THEN n ELSE Len(a))
\* a[::-1]
Reverse(a) == [i \in 1..Len(a) |-> a[Len(a) + 1 - i]]

\* ------------------------------------------- the request flow, common
\* os.path.splitext(name)[1]: from the last dot on, unless only dots lead up to it
SplitExt(name) ==
    LET dots == { i \in 1..Len(name) : name[i] = "." }
        last == CHOOSE i \in dots : \A j \in dots : j <= i
    IN  IF dots = {} THEN << >>
        ELSE IF \A j \in 1..(last - 1) : name[j] = "." THEN << >>
        ELSE SubSeq(name, last, Len(name))

\* a temp file: directory, the request's uuid, what follows the uuid
TempName(dir, r, suffix) == <<dir, r, suffix>>

\* a dict returned by the handler: FastAPI answers 200 with it
Returned(body) == [status |-> 200, raised |-> FALSE, body |-> body]
\* an exception that leaves the handler
Propagated(e) == [status |-> 500, raised |-> TRUE, body |-> e]

\* what the failing library call reports
WhisperError == <<"t","r","a","n","s","c","r","i","p","t","i","o","n"," ","f","a","i","l","e","d">>
LoadError == <<"a","u","d","i","o"," ","c","o","u","l","d"," ","n","o","t"," ","b","e"," ","l","o","a","d","e","d">>
YamnetError == <<"c","l","a","s","s","i","f","i","c","a","t","i","o","n"," ","f","a","i","l","e","d">>
SaveError == <<"u","p","l","o","a","d"," ","c","o","u","l","d"," ","n","o","t"," ","b","e"," ","w","r","i","t","t","e","n">>
RemoveError == <<"f","i","l","e"," ","c","o","u","l","d"," ","n","o","t"," ","b","e"," ","r","e","m","o","v","e","d">>

\* a request arrives at one of the apps; names are the file names it may carry
Receive(h, first, names) ==
    /\ pc \in {"idle", "done"}
    /\ req < MaxRequests
    /\ handler' = h
    /\ \E n \in names : filename' = n
    /\ req' = req + 1
    /\ pc' = first
    /\ text' = None
    /\ audio' = 0
    /\ sounds' = None
    /\ audio_path' = None
    /\ verdict' = None
    /\ error' = None
    /\ response' = NoResult
    /\ log' = << >>
    /\ UNCHANGED disk
    /\ UNCHANGED callVars
    /\ UNCHANGED dbVars

\* ---------------------------------------------- /analyze of src/app.py
TOP_N == 10
keywords == << <<"s","p","e","e","c","h">>, <<"c","o","n","v","e","r","s","a","t","i","o","n">>, <<"c","r","o","w","d">>, <<"v","e","h","i","c","l","e">>, <<"e","n","g","i","n","e">>,
               <<"t","r","a","f","f","i","c">>, <<"a","i","r","c","r","a","f","t">>, <<"s","i","r","e","n">> >>

\* raw_sounds over every label, strongest first, without the cut at ten
RawSounds_NoCut(mean_scores) ==
    LET all_indices == Reverse(ArgSort(mean_scores))
    IN  [k \in 1..Len(all_indices) |->
            <<labels[all_indices[k]], mean_scores[all_indices[k]]>>]

\* top_indices and raw_sounds: the ten labels with the highest mean score
RawSounds(mean_scores) ==
    LET top_indices == Reverse(LastN(ArgSort(mean_scores), TOP_N))
    IN  [k \in 1..Len(top_indices) |->
            <<labels[top_indices[k]], mean_scores[top_indices[k]]>>]

\* the filter keeping every label
FilterSounds_KeepAll(raw_sounds, kws) == raw_sounds

\* the dict comprehension that keeps the labels holding a filter keyword
FilterSounds(raw_sounds, kws) ==
    SelectSeq(raw_sounds, LAMBDA kv : AnyWordIn(kws, Lower(kv[1])))

\* the except branch answering with the default confidence
Fallback_DefaultConfidence(e) ==
    [location |-> <<"U","n","k","n","o","w","n">>, situation |-> <<"U","n","k","n","o","w","n">>, confidence |-> 300,
     evidence |-> << >>, summary |-> <<"E","r","r","o","r"," ","p","r","o","c","e","s","s","i","n","g"," ","a","u","d","i","o",".">>,
     transcribed |-> << >>, error |-> e]

\* the response of the except branch
Fallback(e) ==
    [location |-> <<"U","n","k","n","o","w","n">>, situation |-> <<"U","n","k","n","o","w","n">>, confidence |-> 0,
     evidence |-> << >>, summary |-> <<"E","r","r","o","r"," ","p","r","o","c","e","s","s","i","n","g"," ","a","u","d","i","o",".">>,
     transcribed |-> << >>, error |-> e]

\* one temp file name shared by all requests
AppTemp_FixedName == TempName("uploads", 0, <<".","w","a","v">>)

AppTemp == TempName("uploads", req, <<".","w","a","v">>)

\* file.filename is only printed
App_Receive == Receive("app", "save", { <<"c","l","i","p",".","w","a","v">> })

\* makedirs, open and write, before the try block
App_Save ==
    /\ handler = "app" /\ pc = "save"
    /\ \/ /\ disk' = disk \cup {AppTemp}
          /\ log' = Append(log, "save")
          /\ pc' = "whisper"
          /\ UNCHANGED response
       \/ \E created \in BOOLEAN :
          /\ disk' = IF created THEN disk \cup {AppTemp} ELSE disk
          /\ log' = Append(log, "save_raised")
          /\ response' = Propagated(SaveError)
          /\ pc' = "done"
    /\ UNCHANGED <<handler, filename, audio_path, verdict, req, text, audio, sounds, error>>
    /\ UNCHANGED callVars
    /\ UNCHANGED dbVars

App_Whisper ==
    /\ handler = "app" /\ pc = "whisper"
    /\ \/ \E t \in FlowTexts :
          /\ text' = t
          /\ log' = Append(log, "transcribe")
          /\ pc' = "load"
          /\ UNCHANGED error
       \/ /\ error' = WhisperError
          /\ log' = Append(log, "transcribe_raised")
          /\ pc' = "except"
          /\ UNCHANGED text
    /\ UNCHANGED <<handler, filename, audio_path, verdict, req, disk, audio, sounds, response>>
    /\ UNCHANGED callVars
    /\ UNCHANGED dbVars

App_Load ==
    /\ handler = "app" /\ pc = "load"
    /\ \/ \E c \in Clips :
          /\ audio' = c
          /\ log' = Append(log, "load")
          /\ pc' = "yamnet"
          /\ UNCHANGED error
       \/ /\ error' = LoadError
          /\ log' = Append(log, "load_raised")
          /\ pc' = "except"
          /\ UNCHANGED audio
    /\ UNCHANGED <<handler, filename, audio_path, verdict, req, disk, text, sounds, response>>
    /\ UNCHANGED callVars
    /\ UNCHANGED dbVars

\* yamnet, the mean scores, the top ten and the keyword filter
App_Classify ==
    /\ handler = "app" /\ pc = "yamnet"
    /\ \/ /\ sounds' = FilterSounds(RawSounds(MeanScores(audio)), keywords)
          /\ log' = Append(log, "classify")
          /\ pc' = "fuse"
          /\ UNCHANGED error
       \/ /\ error' = YamnetError
          /\ log' = Append(log, "classify_raised")
          /\ pc' = "except"
          /\ UNCHANGED sounds
    /\ UNCHANGED <<handler, filename, audio_path, verdict, req, disk, text, audio, response>>
    /\ UNCHANGED callVars
    /\ UNCHANGED dbVars

\* return analyze_audio(text, sounds): the value is held until finally ran
App_Fuse ==
    /\ handler = "app" /\ pc = "fuse"
    /\ response' = Returned(analyze_audio(text, sounds))
    /\ log' = Append(log, "fuse")
    /\ pc' = "finally"
    /\ UNCHANGED <<handler, filename, audio_path, verdict, req, disk, text, audio, sounds, error>>
    /\ UNCHANGED callVars
    /\ UNCHANGED dbVars

App_Except ==
    /\ handler = "app" /\ pc = "except"
    /\ response' = Returned(Fallback(error))
    /\ log' = Append(log, "fallback")
    /\ pc' = "finally"
    /\ UNCHANGED <<handler, filename, audio_path, verdict, req, disk, text, audio, sounds, error>>
    /\ UNCHANGED callVars
    /\ UNCHANGED dbVars

\* os.remove in its own try: a failure is printed and the response stands
App_Finally ==
    /\ handler = "app" /\ pc = "finally"
    /\ \/ /\ disk' = disk \ {AppTemp}
          /\ log' = Append(log, "cleanup")
       \/ /\ log' = Append(log, "cleanup_raised")
          /\ UNCHANGED disk
    /\ pc' = "done"
    /\ UNCHANGED <<handler, filename, audio_path, verdict, req, text, audio, sounds, error, response>>
    /\ UNCHANGED callVars
    /\ UNCHANGED dbVars

AppNext ==
    \/ App_Receive \/ App_Save \/ App_Whisper \/ App_Load
    \/ App_Classify \/ App_Fuse \/ App_Except \/ App_Finally

\* ------------------------------------ /analyze of src/__pycache__/app.py
\* analyze_audio of that file: the same tests and chain as in src/app.py,
\* no keyword override, the key "transcribe", a summary without confidence
Pyc_analyze_audio(text_in, sounds_in) ==
    LET txt == Lower(text_in)
        sound_labels == [i \in 1..Len(sounds_in) |-> Lower(Keys(sounds_in)[i])]
        r == LocationRules(txt, sound_labels)
    IN  IF IsEmergencyText(txt) \/ IsEmergencySound(sound_labels)
        THEN [location |-> r.location,
              situation |-> <<"E","m","e","r","g","e","n","c","y">>,
              confidence |-> 950,
              confidence_reason |-> <<"H","i","g","h"," ","c","o","n","f","i","d","e","n","c","e"," ","d","u","e"," ","t","o"," ","e","m","e","r","g","e","n","c","y"," ","s","i","g","n","a","l","s",".">>,
              evidence |-> sound_labels,
              summary |-> <<"E","m","e","r","g","e","n","c","y"," ","s","i","t","u","a","t","i","o","n"," ","d","e","t","e","c","t","e","d"," ","b","a","s","e","d"," ","o","n"," ","d","i","s","t","r","e","s","s"," ","s","i","g","n","a","l","s",".">>,
              transcribe |-> txt]
        ELSE [location |-> r.location,
              situation |-> r.situation,
              confidence |-> Round2(r.confidence),
              evidence |-> r.evidence,
              summary |-> <<"T","h","i","s"," ","a","u","d","i","o"," ","l","i","k","e","l","y"," ","c","o","m","e","s"," ","f","r","o","m"," ","a"," ">> \o Lower(r.location)
                          \o <<" ","d","u","r","i","n","g"," ">> \o Lower(r.situation) \o <<","," ","i","n","f","e","r","r","e","d"," ","f","r","o","m"," ">>
                          \o Join(<<" ">>, r.evidence) \o <<".">>,
              transcribe |-> txt]

Pyc_keywords == << <<"s","p","e","e","c","h">>, <<"c","o","n","v","e","r","s","a","t","i","o","n">>, <<"c","r","o","w","d">>, <<"v","e","h","i","c","l","e">>, <<"e","n","g","i","n","e">>,
                   <<"t","r","a","f","f","i","c">>, <<"a","i","r","c","r","a","f","t">>, <<"s","i","r","e","n">>, <<"g","l","a","s","s">>, <<"a","l","a","r","m">> >>

\* file_ext, with the ".wav" default, and unique_filename
Pyc_Ext == IF SplitExt(filename) = << >> THEN <<".","w","a","v">> ELSE SplitExt(filename)
PycTemp == TempName("", req, Pyc_Ext)

\* the early return when librosa cannot read the file
FormatErrorBody ==
    [location |-> <<"F","o","r","m","a","t"," ","E","r","r","o","r">>, situation |-> <<"U","n","r","e","a","d","a","b","l","e"," ","A","u","d","i","o">>, confidence |-> 0,
     evidence |-> << <<"T","r","y"," ","a"," ",".","W","A","V"," ","f","i","l","e">> >>,
     summary |-> <<"T","h","e"," ","s","y","s","t","e","m"," ","c","o","u","l","d"," ","n","o","t"," ","r","e","a","d"," ","t","h","i","s"," ","a","u","d","i","o"," ","f","o","r","m","a","t","."," ","P","l","e","a","s","e"," ","t","r","y"," ","c","o","n","v","e","r","t","i","n","g"," ","i","t"," ","t","o"," ",".","W","A","V",".">>,
     transcribe |-> <<"E","r","r","o","r"," ","l","o","a","d","i","n","g"," ","a","u","d","i","o">>]

\* raise HTTPException(status_code=500, detail=...)
HTTPException(code, detail) == [status |-> code, raised |-> TRUE, body |-> [detail |-> detail]]

Pyc_Receive == Receive("pycache", "save", FileNames)

\* the upload is written inside the try block
Pyc_Save ==
    /\ handler = "pycache" /\ pc = "save"
    /\ \/ /\ disk' = disk \cup {PycTemp}
          /\ log' = Append(log, "save")
          /\ pc' = "whisper"
          /\ UNCHANGED error
       \/ \E created \in BOOLEAN :
          /\ disk' = IF created THEN disk \cup {PycTemp} ELSE disk
          /\ log' = Append(log, "save_raised")
          /\ error' = SaveError
          /\ pc' = "except"
    /\ UNCHANGED <<handler, filename, audio_path, verdict, req, text, audio, sounds, response>>
    /\ UNCHANGED callVars
    /\ UNCHANGED dbVars

\* a failing transcription is replaced by a fixed text
Pyc_Whisper ==
    /\ handler = "pycache" /\ pc = "whisper"
    /\ \/ \E t \in FlowTexts :
          /\ text' = t
          /\ log' = Append(log, "transcribe")
       \/ /\ text' = <<"C","o","u","l","d"," ","n","o","t"," ","t","r","a","n","s","c","r","i","b","e",".">>
          /\ log' = Append(log, "transcribe_raised")
    /\ pc' = "load"
    /\ UNCHANGED <<handler, filename, audio_path, verdict, req, disk, audio, sounds, error, response>>
    /\ UNCHANGED callVars
    /\ UNCHANGED dbVars

\* a failing load returns the format-error response from inside the try
Pyc_Load ==
    /\ handler = "pycache" /\ pc = "load"
    /\ \/ \E c \in Clips :
          /\ audio' = c
          /\ log' = Append(log, "load")
          /\ pc' = "yamnet"
          /\ UNCHANGED response
       \/ /\ response' = Returned(FormatErrorBody)
          /\ log' = Append(log, "load_raised")
          /\ pc' = "finally"
          /\ UNCHANGED audio
    /\ UNCHANGED <<handler, filename, audio_path, verdict, req, disk, text, sounds, error>>
    /\ UNCHANGED callVars
    /\ UNCHANGED dbVars

\* the classifier step going on to the rules, the file left to finally
Pyc_Classify_NoEarlyCleanup ==
    /\ handler = "pycache" /\ pc = "yamnet"
    /\ \/ /\ sounds' = FilterSounds(RawSounds(MeanScores(audio)), Pyc_keywords)
          /\ log' = Append(log, "classify")
          /\ pc' = "fuse"
          /\ UNCHANGED error
       \/ /\ error' = YamnetError
          /\ log' = Append(log, "classify_raised")
          /\ pc' = "except"
          /\ UNCHANGED sounds
    /\ UNCHANGED <<handler, filename, audio_path, verdict, req, disk, text, audio, response>>
    /\ UNCHANGED callVars
    /\ UNCHANGED dbVars

Pyc_Classify ==
    /\ handler = "pycache" /\ pc = "yamnet"
    /\ \/ /\ sounds' = FilterSounds(RawSounds(MeanScores(audio)), Pyc_keywords)
          /\ log' = Append(log, "classify")
          /\ pc' = "cleanup"
          /\ UNCHANGED error
       \/ /\ error' = YamnetError
          /\ log' = Append(log, "classify_raised")
          /\ pc' = "except"
          /\ UNCHANGED sounds
    /\ UNCHANGED <<handler, filename, audio_path, verdict, req, disk, text, audio, response>>
    /\ UNCHANGED callVars
    /\ UNCHANGED dbVars

\* the "Cleanup" block that comes before the rules are applied
Pyc_Cleanup ==
    /\ handler = "pycache" /\ pc = "cleanup"
    /\ IF PycTemp \in disk
       THEN \/ /\ disk' = disk \ {PycTemp}
               /\ log' = Append(log, "cleanup")
               /\ pc' = "fuse"
               /\ UNCHANGED error
            \/ /\ error' = RemoveError
               /\ log' = Append(log, "cleanup_raised")
               /\ pc' = "except"
               /\ UNCHANGED disk
       ELSE /\ pc' = "fuse"
            /\ UNCHANGED <<disk, log, error>>
    /\ UNCHANGED <<handler, filename, audio_path, verdict, req, text, audio, sounds, response>>
    /\ UNCHANGED callVars
    /\ UNCHANGED dbVars

\* analyze_audio, then result['transcribe'] = result.pop('transcribed', text):
\* the result has no key "transcribed", so the raw transcript is stored
Pyc_Fuse ==
    /\ handler = "pycache" /\ pc = "fuse"
    /\ response' = Returned([Pyc_analyze_audio(text, sounds) EXCEPT !.transcribe = text])
    /\ log' = Append(log, "fuse")
    /\ pc' = "finally"
    /\ UNCHANGED <<handler, filename, audio_path, verdict, req, disk, text, audio, sounds, error>>
    /\ UNCHANGED callVars
    /\ UNCHANGED dbVars

\* the outer except: remove the file if it exists, then raise HTTPException;
\* a failing remove leaves the except block with its own exception
Pyc_Except ==
    /\ handler = "pycache" /\ pc = "except"
    /\ IF PycTemp \in disk
       THEN \/ /\ disk' = disk \ {PycTemp}
               /\ log' = Append(log, "cleanup")
               /\ response' = HTTPException(500, error)
            \/ /\ log' = Append(log, "cleanup_raised")
               /\ response' = Propagated(RemoveError)
               /\ UNCHANGED disk
       ELSE /\ response' = HTTPException(500, error)
            /\ UNCHANGED <<disk, log>>
    /\ pc' = "finally"
    /\ UNCHANGED <<handler, filename, audio_path, verdict, req, text, audio, sounds, error>>
    /\ UNCHANGED callVars
    /\ UNCHANGED dbVars

\* finally: remove the file if it still exists; a failing remove replaces
\* the pending return or exception
Pyc_Finally ==
    /\ handler = "pycache" /\ pc = "finally"
    /\ IF PycTemp \in disk
       THEN \/ /\ disk' = disk \ {PycTemp}
               /\ log' = Append(log, "cleanup")
               /\ UNCHANGED response
            \/ /\ log' = Append(log, "cleanup_raised")
               /\ response' = Propagated(RemoveError)
               /\ UNCHANGED disk
       ELSE UNCHANGED <<disk, log, response>>
    /\ pc' = "done"
    /\ UNCHANGED <<handler, filename, audio_path, verdict, req, text, audio, sounds, error>>
    /\ UNCHANGED callVars
    /\ UNCHANGED dbVars

PycNext ==
    \/ Pyc_Receive \/ Pyc_Save \/ Pyc_Whisper \/ Pyc_Load \/ Pyc_Classify
    \/ Pyc_Cleanup \/ Pyc_Fuse \/ Pyc_Except \/ Pyc_Finally

\* ------------------------------------- /analyze of src/.vscode/app (2).py
Vs_TOP_N == 5

\* analyze_logic(text, sounds) of that file: the transcript alone decides
Vs_analyze_logic(text_in, sounds_in) ==
    LET txt == Lower(text_in)
        chain == IF AnyWordIn(airport_words, txt)
                 THEN [location |-> <<"A","i","r","p","o","r","t">>, situation |-> <<"B","o","a","r","d","i","n","g">>, confidence |-> 850]
                 ELSE IF AnyWordIn(rail_words, txt)
                 THEN [location |-> <<"R","a","i","l","w","a","y"," ","S","t","a","t","i","o","n">>, situation |-> <<"T","r","a","n","s","i","t">>, confidence |-> 800]
                 ELSE [location |-> <<"U","n","k","n","o","w","n">>, situation |-> <<"U","n","k","n","o","w","n">>, confidence |-> 300]
        r == IF AnyWordIn(emergency_words, txt)
             THEN [chain EXCEPT !.situation = <<"E","m","e","r","g","e","n","c","y">>, !.confidence = 950]
             ELSE chain
    IN  [location |-> r.location,
         situation |-> r.situation,
         confidence |-> r.confidence,
         evidence |-> FirstN(Keys(sounds_in), 3),
         summary |-> <<"D","e","t","e","c","t","e","d"," ">> \o r.situation \o <<" ","a","t"," ">> \o r.location,
         transcribed |-> txt]

\* the five labels with the highest mean score, unfiltered
Vs_Sounds(mean_scores) ==
    LET top_n == FirstN(Reverse(ArgSort(mean_scores)), Vs_TOP_N)
    IN  [k \in 1..Len(top_n) |-> <<labels[top_n[k]], mean_scores[top_n[k]]>>]

VsTemp == TempName("uploads", req, <<".","w","a","v">>)

\* file.filename is only printed
Vs_Receive == Receive("vscode", "save", { <<"c","l","i","p",".","w","a","v">> })

\* the upload is written before the try block
Vs_Save ==
    /\ handler = "vscode" /\ pc = "save"
    /\ \/ /\ disk' = disk \cup {VsTemp}
          /\ log' = Append(log, "save")
          /\ pc' = "whisper"
          /\ UNCHANGED response
       \/ \E created \in BOOLEAN :
          /\ disk' = IF created THEN disk \cup {VsTemp} ELSE disk
          /\ log' = Append(log, "save_raised")
          /\ response' = Propagated(SaveError)
          /\ pc' = "done"
    /\ UNCHANGED <<handler, filename, audio_path, verdict, req, text, audio, sounds, error>>
    /\ UNCHANGED callVars
    /\ UNCHANGED dbVars

\* a failing transcription gives the empty text
Vs_Whisper ==
    /\ handler = "vscode" /\ pc = "whisper"
    /\ \/ \E t \in FlowTexts :
          /\ text' = t
          /\ log' = Append(log, "transcribe")
       \/ /\ text' = << >>
          /\ log' = Append(log, "transcribe_raised")
    /\ pc' = "yamnet"
    /\ UNCHANGED <<handler, filename, audio_path, verdict, req, disk, audio, sounds, error, response>>
    /\ UNCHANGED callVars
    /\ UNCHANGED dbVars

\* librosa.load, the trim, yamnet and the top five
Vs_Classify ==
    /\ handler = "vscode" /\ pc = "yamnet"
    /\ \/ \E c \in Clips :
          /\ audio' = c
          /\ sounds' = Vs_Sounds(MeanScores(c))
          /\ log' = Append(log, "classify")
          /\ pc' = "fuse"
          /\ UNCHANGED error
       \/ \E e \in {LoadError, YamnetError} :
          /\ error' = e
          /\ log' = Append(log, "classify_raised")
          /\ pc' = "except"
          /\ UNCHANGED <<audio, sounds>>
    /\ UNCHANGED <<handler, filename, audio_path, verdict, req, disk, text, response>>
    /\ UNCHANGED callVars
    /\ UNCHANGED dbVars

Vs_Logic ==
    /\ handler = "vscode" /\ pc = "fuse"
    /\ response' = Returned(Vs_analyze_logic(text, sounds))
    /\ log' = Append(log, "fuse")
    /\ pc' = "finally"
    /\ UNCHANGED <<handler, filename, audio_path, verdict, req, disk, text, audio, sounds, error>>
    /\ UNCHANGED callVars
    /\ UNCHANGED dbVars

Vs_Except ==
    /\ handler = "vscode" /\ pc = "except"
    /\ response' = Returned([error |-> error])
    /\ log' = Append(log, "fallback")
    /\ pc' = "finally"
    /\ UNCHANGED <<handler, filename, audio_path, verdict, req, disk, text, audio, sounds, error>>
    /\ UNCHANGED callVars
    /\ UNCHANGED dbVars

\* finally: an unguarded os.remove if the file exists
Vs_Finally ==
    /\ handler = "vscode" /\ pc = "finally"
    /\ IF VsTemp \in disk
       THEN \/ /\ disk' = disk \ {VsTemp}
               /\ log' = Append(log, "cleanup")
               /\ UNCHANGED response
            \/ /\ log' = Append(log, "cleanup_raised")
               /\ response' = Propagated(RemoveError)
               /\ UNCHANGED disk
       ELSE UNCHANGED <<disk, log, response>>
    /\ pc' = "done"
    /\ UNCHANGED <<handler, filename, audio_path, verdict, req, text, audio, sounds, error>>
    /\ UNCHANGED callVars
    /\ UNCHANGED dbVars

VsNext ==
    \/ Vs_Receive \/ Vs_Save \/ Vs_Whisper \/ Vs_Classify
    \/ Vs_Logic \/ Vs_Except \/ Vs_Finally

\* ------------------ /login and /save_history of src/.vscode/app (2).py
\* request bodies
Emails == { <<"a","n","a","@","x",".","o","r","g">>, <<"b","o","@","x",".","o","r","g">> }
Passwords == { <<"s","e","c","r","e","t">>, <<"g","u","e","s","s">> }
UserLogins == { [email |-> e, password |-> p] : e \in Emails, p \in Passwords }
HistoryItems ==
    { [timestamp |-> <<"1","0",":","1","5">>, location |-> <<"A","i","r","p","o","r","t">>, situation |-> <<"B","o","a","r","d","i","n","g">>,
       confidence |-> <<"8","5">>, soundType |-> <<"C","r","o","w","d">>, fileName |-> <<"c","l","i","p",".","w","a","v">>,
       transcription |-> <<"f","l","i","g","h","t">>],
      [timestamp |-> <<"1","0",":","2","0">>, location |-> <<"U","n","k","n","o","w","n">>, situation |-> <<"E","m","e","r","g","e","n","c","y">>,
       confidence |-> <<"9","5">>, soundType |-> <<"S","i","r","e","n">>, fileName |-> <<"c","l","i","p",".","w","a","v">>,
       transcription |-> <<"h","e","l","p">>] }

\* tables users the database file may hold: email is the primary key
UserTables ==
    { t \in SUBSET (Emails \X Passwords) :
        \A r1, r2 \in t : r1[1] = r2[1] => r1 = r2 }

DbError == <<"d","a","t","a","b","a","s","e"," ","i","s"," ","l","o","c","k","e","d">>

\* INSERT INTO history: the id of an INTEGER PRIMARY KEY is the largest id plus one
InsertHistory(rows, item) ==
    Append(rows, <<(IF rows = << >> THEN 0 ELSE rows[Len(rows)][1]) + 1,
                   item.location, item.situation, item.transcription>>)

\* login looking the email and the password up in table users
Login_CheckPassword ==
    /\ \E user \in UserLogins :
          /\ posted' = user
          /\ answer' = IF <<user.email, user.password>> \in users
                        THEN Returned([token |-> <<"d","e","m","o","_","t","o","k","e","n">>, email |-> user.email])
                        ELSE [status |-> 401, raised |-> TRUE,
                              body |-> [detail |-> <<"I","n","v","a","l","i","d"," ","c","r","e","d","e","n","t","i","a","l","s">>]]
    /\ UNCHANGED <<users, history>>
    /\ UNCHANGED callVars
    /\ UNCHANGED flowVars

\* login: the token and the email given, nothing read or written
Login ==
    /\ \E user \in UserLogins :
          /\ posted' = user
          /\ answer' = Returned([token |-> <<"d","e","m","o","_","t","o","k","e","n">>, email |-> user.email])
    /\ UNCHANGED <<users, history>>
    /\ UNCHANGED callVars
    /\ UNCHANGED flowVars

\* save_history: one row of location, situation, transcription
SaveHistory ==
    /\ Len(history) < MaxHistory
    /\ \E item \in HistoryItems :
          /\ posted' = item
          /\ \/ /\ history' = InsertHistory(history, item)
                /\ answer' = Returned([status |-> <<"S","a","v","e","d">>])
             \/ /\ answer' = Propagated(DbError)
                /\ UNCHANGED history
    /\ UNCHANGED users
    /\ UNCHANGED callVars
    /\ UNCHANGED flowVars

\* the database file found at start-up: CREATE TABLE IF NOT EXISTS keeps its rows
DbInit ==
    /\ users \in UserTables
    /\ history = << >>
    /\ posted = None
    /\ answer = NoResult
    /\ arg_text = << >>
    /\ arg_sounds = << >>
    /\ ret = NoResult
    /\ FlowIdle

DbNext == Login \/ SaveHistory

DbSpec == DbInit /\ [][DbNext]_vars

\* -------------------------------------- /analyze of src/chat gpt/app.py
Chat_TOP_N == 3
Chat_vehicle_sounds == { <<"C","a","r">>, <<"V","e","h","i","c","l","e">>, <<"B","u","s">>, <<"T","r","u","c","k">>, <<"M","o","t","o","r","c","y","c","l","e">>, <<"T","r","a","i","n">>,
                         <<"T","r","a","f","f","i","c">>, <<"E","n","g","i","n","e">>, <<"S","i","r","e","n">> }
Chat_public_sounds == { <<"C","r","o","w","d">>, <<"C","o","n","v","e","r","s","a","t","i","o","n">>, <<"S","p","e","e","c","h">>, <<"N","a","r","r","a","t","i","o","n">>, <<"M","o","n","o","l","o","g","u","e">>,
                        <<"W","a","l","k">>, <<"F","o","o","t","s","t","e","p","s">>, <<"A","i","r","p","o","r","t">>, <<"S","t","a","t","i","o","n">> }

\* has_any(words): some lower-cased word occurs inside some lower-cased label
Chat_has_any(words, sound_labels) ==
    \E i \in 1..Len(sound_labels) :
        \E w \in words : Contains(Lower(w), Lower(sound_labels[i]))

\* analyze_logic(sound_labels) of that file: the labels alone decide
Chat_analyze_logic(sound_labels) ==
    IF Chat_has_any(Chat_vehicle_sounds, sound_labels)
    THEN [location |-> <<"R","o","a","d"," ","/"," ","V","e","h","i","c","l","e"," ","A","r","e","a">>,
          situation |-> <<"P","o","s","s","i","b","l","e"," ","t","r","a","f","f","i","c"," ","/"," ","v","e","h","i","c","l","e"," ","m","o","v","e","m","e","n","t"," ","d","e","t","e","c","t","e","d",".">>]
    ELSE IF Chat_has_any(Chat_public_sounds, sound_labels)
    THEN [location |-> <<"P","u","b","l","i","c"," ","P","l","a","c","e">>,
          situation |-> <<"P","e","o","p","l","e","/","c","r","o","w","d"," ","v","o","i","c","e","s"," ","d","e","t","e","c","t","e","d","."," ","L","i","k","e","l","y"," ","a"," ","p","u","b","l","i","c"," ","e","n","v","i","r","o","n","m","e","n","t",".">>]
    ELSE [location |-> <<"U","n","k","n","o","w","n">>,
          situation |-> <<"N","o"," ","s","t","r","o","n","g"," ","e","n","v","i","r","o","n","m","e","n","t","a","l"," ","s","o","u","n","d","s"," ","d","e","t","e","c","t","e","d",".">>]

\* class_names: the class map is split at every comma, so a display name
\* that holds a comma is cut at its first comma
Chat_FirstField(name) ==
    LET commas == { i \in 1..Len(name) : name[i] = "," }
    IN  IF commas = {} THEN name
        ELSE SubSeq(name, 1, (CHOOSE i \in commas : \A j \in commas : i <= j) - 1)
Chat_class_names == [i \in 1..Len(labels) |-> Chat_FirstField(labels[i])]

\* the three labels with the highest mean score, with their scores
Chat_TopSounds(mean_scores) ==
    LET top_indices == FirstN(Reverse(ArgSort(mean_scores)), Chat_TOP_N)
    IN  [k \in 1..Len(top_indices) |->
            <<Chat_class_names[top_indices[k]], mean_scores[top_indices[k]]>>]

\* min(0.95, 0.35 + top_scores[0])
Chat_Confidence(top) == IF 350 + top[1][2] < 950 THEN 350 + top[1][2] ELSE 950

\* str.strip()
RECURSIVE LStrip(_)
LStrip(str) ==
    IF Len(str) > 0 /\ str[1] \in {" ", "\t", "\n"} THEN LStrip(Tail(str)) ELSE str
Strip(str) == Reverse(LStrip(Reverse(LStrip(str))))

\* transcription[:180] + ("..." if len(transcription) > 180 else "")
Chat_Summary(transcription) ==
    FirstN(transcription, 180) \o (IF Len(transcription) > 180 THEN <<".",".",".">> ELSE << >>)

\* JSONResponse(status_code=..., content=...)
JSONResponse(code, content) == [status |-> code, raised |-> FALSE, body |-> content]

\* ext, lower-cased, with the ".wav" default; temp_path and converted_path
Chat_Ext ==
    IF Lower(SplitExt(filename)) = << >> THEN <<".","w","a","v">> ELSE Lower(SplitExt(filename))
ChatTemp == TempName("", req, Chat_Ext)
ChatConverted == TempName("", req, <<"_","c","o","n","v","e","r","t","e","d",".","w","a","v">>)

Chat_Receive == Receive("chatgpt", "check", FileNames)

\* an upload without a file name is refused before any file is written
Chat_Check ==
    /\ handler = "chatgpt" /\ pc = "check"
    /\ IF filename = << >>
       THEN /\ response' = JSONResponse(400, [error |-> <<"N","o"," ","f","i","l","e"," ","u","p","l","o","a","d","e","d",".">>])
            /\ pc' = "done"
       ELSE /\ pc' = "save"
            /\ UNCHANGED response
    /\ UNCHANGED <<handler, filename, audio_path, verdict, req, disk, text, audio, sounds, error, log>>
    /\ UNCHANGED callVars
    /\ UNCHANGED dbVars

Chat_Save ==
    /\ handler = "chatgpt" /\ pc = "save"
    /\ \/ /\ disk' = disk \cup {ChatTemp}
          /\ log' = Append(log, "save")
          /\ pc' = "convert"
          /\ UNCHANGED error
       \/ \E created \in BOOLEAN :
          /\ disk' = IF created THEN disk \cup {ChatTemp} ELSE disk
          /\ log' = Append(log, "save_raised")
          /\ error' = SaveError
          /\ pc' = "except"
    /\ UNCHANGED <<handler, filename, audio_path, verdict, req, text, audio, sounds, response>>
    /\ UNCHANGED callVars
    /\ UNCHANGED dbVars

\* the optional FFmpeg conversion; a failing conversion is only printed
Chat_Convert ==
    /\ handler = "chatgpt" /\ pc = "convert"
    /\ \E ffmpeg_available \in BOOLEAN :
          IF Chat_Ext # <<".","w","a","v">> /\ ffmpeg_available
          THEN \/ /\ disk' = disk \cup {ChatConverted}
                  /\ audio_path' = ChatConverted
               \/ \E created \in BOOLEAN :
                  /\ disk' = IF created THEN disk \cup {ChatConverted} ELSE disk
                  /\ audio_path' = ChatTemp
          ELSE /\ audio_path' = ChatTemp
               /\ UNCHANGED disk
    /\ pc' = "load"
    /\ UNCHANGED <<handler, filename, verdict, req, text, audio, sounds, error, response, log>>
    /\ UNCHANGED callVars
    /\ UNCHANGED dbVars

Chat_Load ==
    /\ handler = "chatgpt" /\ pc = "load"
    /\ \/ \E c \in Clips :
          /\ audio' = c
          /\ log' = Append(log, "load")
          /\ pc' = "yamnet"
          /\ UNCHANGED error
       \/ /\ error' = LoadError
          /\ log' = Append(log, "load_raised")
          /\ pc' = "except"
          /\ UNCHANGED audio
    /\ UNCHANGED <<handler, filename, audio_path, verdict, req, disk, text, sounds, response>>
    /\ UNCHANGED callVars
    /\ UNCHANGED dbVars

\* yamnet, the mean scores and the top three
Chat_Classify ==
    /\ handler = "chatgpt" /\ pc = "yamnet"
    /\ \/ /\ sounds' = Chat_TopSounds(MeanScores(audio))
          /\ log' = Append(log, "classify")
          /\ pc' = "fuse"
          /\ UNCHANGED error
       \/ /\ error' = YamnetError
          /\ log' = Append(log, "classify_raised")
          /\ pc' = "except"
          /\ UNCHANGED sounds
    /\ UNCHANGED <<handler, filename, audio_path, verdict, req, disk, text, audio, response>>
    /\ UNCHANGED callVars
    /\ UNCHANGED dbVars

\* the rules are applied to the labels before anything is transcribed
Chat_Logic ==
    /\ handler = "chatgpt" /\ pc = "fuse"
    /\ verdict' = Chat_analyze_logic(Keys(sounds))
    /\ log' = Append(log, "fuse")
    /\ pc' = "whisper"
    /\ UNCHANGED <<handler, filename, audio_path, req, disk, text, audio, sounds, error, response>>
    /\ UNCHANGED callVars
    /\ UNCHANGED dbVars

\* the transcription, in its own try, and the return
Chat_Whisper ==
    /\ handler = "chatgpt" /\ pc = "whisper"
    /\ \/ \E t \in FlowTexts :
          /\ text' = Strip(t)
          /\ log' = Append(log, "transcribe")
          /\ response' = Returned([location |-> verdict.location,
                                   situation |-> verdict.situation,
                                   confidence |-> Chat_Confidence(sounds),
                                   evidence |-> Keys(sounds),
                                   summary |-> Chat_Summary(Strip(t)),
                                   transcribed |-> Strip(t)])
       \/ /\ text' = << >>
          /\ log' = Append(log, "transcribe_raised")
          /\ response' = Returned([location |-> verdict.location,
                                   situation |-> verdict.situation,
                                   confidence |-> Chat_Confidence(sounds),
                                   evidence |-> Keys(sounds),
                                   summary |-> <<"T","r","a","n","s","c","r","i","p","t","i","o","n"," ","u","n","a","v","a","i","l","a","b","l","e"," ","(","W","h","i","s","p","e","r"," ","f","a","i","l","e","d",")",".">>,
                                   transcribed |-> << >>])
    /\ pc' = "finally"
    /\ UNCHANGED <<handler, filename, audio_path, verdict, req, disk, audio, sounds, error>>
    /\ UNCHANGED callVars
    /\ UNCHANGED dbVars

Chat_Except ==
    /\ handler = "chatgpt" /\ pc = "except"
    /\ response' = JSONResponse(500,
           [error |-> <<"S","e","r","v","e","r"," ","e","r","r","o","r"," ","w","h","i","l","e"," ","a","n","a","l","y","z","i","n","g"," ","a","u","d","i","o",":"," ">> \o error])
    /\ log' = Append(log, "fallback")
    /\ pc' = "finally"
    /\ UNCHANGED <<handler, filename, audio_path, verdict, req, disk, text, audio, sounds, error>>
    /\ UNCHANGED callVars
    /\ UNCHANGED dbVars

\* finally: both paths are removed if they exist; a failing remove is ignored
Chat_Finally ==
    /\ handler = "chatgpt" /\ pc = "finally"
    /\ \E removed \in SUBSET ({ChatTemp, ChatConverted} \cap disk) :
          /\ disk' = disk \ removed
          /\ log' = Append(log, IF removed = {ChatTemp, ChatConverted} \cap disk
                                THEN "cleanup" ELSE "cleanup_raised")
    /\ pc' = "done"
    /\ UNCHANGED <<handler, filename, audio_path, verdict, req, text, audio, sounds, error, response>>
    /\ UNCHANGED callVars
    /\ UNCHANGED dbVars

ChatNext ==
    \/ Chat_Receive \/ Chat_Check \/ Chat_Save \/ Chat_Convert \/ Chat_Load
    \/ Chat_Classify \/ Chat_Logic \/ Chat_Whisper \/ Chat_Except \/ Chat_Finally

\* --------------------------------------- what the handler steps call
\* the models bound at import: whisper = pipeline(...), yamnet = hub.load(...)
Whisper == "transformers.pipeline(automatic-speech-recognition)"
Yamnet == "tensorflow_hub.load(yamnet/1)"

\* the classify step running the scene classifier in place of yamnet
Callees_SceneClassifier(h, step) ==
    IF step \in {"classify", "classify_raised"}
    THEN {"AuralisSceneClassifier", "tf.reduce_mean", "np.argsort"}
    ELSE {}

\* the functions and objects each logged step of handler h calls
Callees(h, step) ==
    CASE step \in {"save", "save_raised"} ->
            IF h \in {"app", "vscode"}
            THEN {"os.makedirs", "uuid.uuid4", "open", "os.fsync"}
            ELSE {"os.path.splitext", "uuid.uuid4", "open", "shutil.copyfileobj"}
      [] step \in {"transcribe", "transcribe_raised"} -> {Whisper}
      [] step \in {"load", "load_raised"} ->
            IF h = "app" THEN {"librosa.load", "librosa.get_duration"}
            ELSE {"librosa.load"}
      [] step \in {"classify", "classify_raised"} ->
            IF h = "vscode" THEN {"librosa.load", Yamnet, "np.mean", "np.argsort"}
            ELSE {Yamnet, "tf.reduce_mean", "np.argsort"}
      [] step = "fuse" ->
            IF h \in {"app", "pycache"} THEN {"analyze_audio"} ELSE {"analyze_logic"}
      [] step = "fallback" ->
            IF h = "chatgpt" THEN {"traceback.print_exc", "JSONResponse"} ELSE {}
      [] step \in {"cleanup", "cleanup_raised"} ->
            IF h = "app" THEN {"os.remove"} ELSE {"os.path.exists", "os.remove"}

\* ------------------------------------------------------ the service
Init ==
    /\ arg_text = << >>
    /\ arg_sounds = << >>
    /\ ret = NoResult
    /\ FlowIdle
    /\ DbIdle

Next == AppNext \/ PycNext \/ VsNext \/ ChatNext

Spec == Init /\ [][Next]_vars

\* ======================================================================
\* Properties of analyze_audio, checked under FusionSpec
\* ======================================================================
Called == ret # NoResult

\* the inputs as the properties read them
InText(words) == \E w \in words : Contains(w, Lower(arg_text))
SomeLabelContains(words) ==
    \E i \in 1..Len(arg_sounds) : \E w \in words : Contains(w, Lower(arg_sounds[i][1]))
SomeLabelIs(words) ==
    \E i \in 1..Len(arg_sounds) : Lower(arg_sounds[i][1]) \in words

EmergencySignal ==
    \/ InText({ <<"h","e","l","p">>, <<"f","i","r","e">>, <<"e","m","e","r","g","e","n","c","y">>, <<"p","o","l","i","c","e">>, <<"a","c","c","i","d","e","n","t">> })
    \/ SomeLabelContains({ <<"s","i","r","e","n">>, <<"s","c","r","e","a","m">>, <<"a","l","a","r","m">>, <<"g","l","a","s","s">>, <<"s","h","o","u","t","i","n","g">> })
AirportCase ==
    /\ InText({ <<"f","l","i","g","h","t">>, <<"b","o","a","r","d","i","n","g">>, <<"g","a","t","e">>, <<"a","i","r","p","o","r","t">> })
    /\ SomeLabelIs({ <<"c","r","o","w","d">>, <<"c","o","n","v","e","r","s","a","t","i","o","n">> })
RailwayCase ==
    /\ InText({ <<"t","r","a","i","n">>, <<"p","l","a","t","f","o","r","m">>, <<"c","o","a","c","h">> })
    /\ SomeLabelIs({ <<"c","r","o","w","d">>, <<"c","o","n","v","e","r","s","a","t","i","o","n">> })
RoadCase == SomeLabelIs({ <<"v","e","h","i","c","l","e">>, <<"e","n","g","i","n","e">>, <<"t","r","a","f","f","i","c">>, <<"h","o","r","n">> })

\* C1: whenever the transcript holds an emergency word or a sound label holds
\* an emergency sound (as substrings, after lower-casing), the result is
\* situation "Emergency" with confidence 0.95, whatever location rule matched.
C1_EmergencyOverride ==
    (Called /\ EmergencySignal) =>
        (ret.situation = <<"E","m","e","r","g","e","n","c","y">> /\ ret.confidence = 950)

\* an emergency raised by a sound alone while the airport rule matched
C1_Witness ==
    /\ Called
    /\ AirportCase
    /\ ~InText({ <<"h","e","l","p">>, <<"f","i","r","e">>, <<"e","m","e","r","g","e","n","c","y">>, <<"p","o","l","i","c","e">>, <<"a","c","c","i","d","e","n","t">> })
    /\ SomeLabelContains({ <<"s","c","r","e","a","m">> })
    /\ ret.location = <<"A","i","r","p","o","r","t">>
    /\ ret.situation = <<"E","m","e","r","g","e","n","c","y">>

\* C2: the location is "Airport" exactly when the transcript holds an airport
\* word and the labels include "crowd" or "conversation"; without an emergency
\* signal the result is then "Boarding" with confidence 0.85.
C2_AirportRule ==
    Called =>
        /\ (ret.location = <<"A","i","r","p","o","r","t">>) <=> AirportCase
        /\ (AirportCase /\ ~EmergencySignal) =>
               (ret.situation = <<"B","o","a","r","d","i","n","g">> /\ ret.confidence = 850)

\* an airport word together with a public sound, no emergency signal
C2_Witness ==
    /\ Called
    /\ AirportCase
    /\ ~EmergencySignal
    /\ ret.location = <<"A","i","r","p","o","r","t">>
    /\ ret.situation = <<"B","o","a","r","d","i","n","g">>

\* C3: the first rule that applies, in the order airport, railway, road,
\* decides the result alone; later rules that also apply add nothing.
C3_RulePriority ==
    Called =>
        /\ AirportCase => ret.location = <<"A","i","r","p","o","r","t">>
        /\ (~AirportCase /\ RailwayCase) => ret.location = <<"R","a","i","l","w","a","y"," ","S","t","a","t","i","o","n">>
        /\ (~AirportCase /\ ~RailwayCase /\ RoadCase) => ret.location = <<"R","o","a","d">>
        /\ (~AirportCase /\ ~RailwayCase /\ ~RoadCase) => ret.location = <<"U","n","k","n","o","w","n">>
        /\ (AirportCase /\ ~EmergencySignal) =>
               /\ ret.situation = <<"B","o","a","r","d","i","n","g">>
               /\ ret.evidence = << <<"F","l","i","g","h","t","-","r","e","l","a","t","e","d"," ","s","p","e","e","c","h">>, <<"P","u","b","l","i","c"," ","c","r","o","w","d"," ","s","o","u","n","d","s">> >>
               /\ ret.confidence = 850
        /\ (~AirportCase /\ RailwayCase /\ ~EmergencySignal) =>
               /\ ret.situation = <<"W","a","i","t","i","n","g"," ","/"," ","B","o","a","r","d","i","n","g">>
               /\ ret.evidence = << <<"T","r","a","i","n","-","r","e","l","a","t","e","d"," ","s","p","e","e","c","h">>, <<"C","r","o","w","d"," ","s","o","u","n","d","s">> >>
               /\ ret.confidence = 800

\* all three rules apply at once and the airport rule alone shows
C3_Witness ==
    /\ Called
    /\ AirportCase /\ RailwayCase /\ RoadCase
    /\ ~EmergencySignal
    /\ ret.location = <<"A","i","r","p","o","r","t">>
    /\ ret.evidence = << <<"F","l","i","g","h","t","-","r","e","l","a","t","e","d"," ","s","p","e","e","c","h">>, <<"P","u","b","l","i","c"," ","c","r","o","w","d"," ","s","o","u","n","d","s">> >>

\* C4: when neither the airport nor the railway rule applies and the labels
\* include a vehicle sound, the location is "Road" whatever the transcript;
\* without an emergency signal the result is "Traffic", 0.7 and the one
\* evidence entry "Vehicle sounds detected".
C4_RoadRule ==
    (Called /\ ~AirportCase /\ ~RailwayCase /\ RoadCase) =>
        /\ ret.location = <<"R","o","a","d">>
        /\ ~EmergencySignal =>
               /\ ret.situation = <<"T","r","a","f","f","i","c">>
               /\ ret.confidence = 700
               /\ ret.evidence = << <<"V","e","h","i","c","l","e"," ","s","o","u","n","d","s"," ","d","e","t","e","c","t","e","d">> >>

\* a vehicle sound in second place under a transcript with an airport word
C4_Witness ==
    /\ Called
    /\ InText({ <<"f","l","i","g","h","t">> })
    /\ Len(arg_sounds) = 2
    /\ Lower(arg_sounds[1][1]) = <<"s","p","e","e","c","h">>
    /\ Lower(arg_sounds[2][1]) = <<"e","n","g","i","n","e">>
    /\ ret.location = <<"R","o","a","d">>
    /\ ret.situation = <<"T","r","a","f","f","i","c">>

\* C5: every keyword test is a containment test, so a public-sound or
\* vehicle-sound keyword that occurs inside some label counts as detected
\* and the rule it belongs to fires.
C5_KeywordsAreSubstringTests ==
    Called =>
        /\ (InText({ <<"f","l","i","g","h","t">>, <<"b","o","a","r","d","i","n","g">>, <<"g","a","t","e">>, <<"a","i","r","p","o","r","t">> })
            /\ SomeLabelContains({ <<"c","r","o","w","d">>, <<"c","o","n","v","e","r","s","a","t","i","o","n">> })) => ret.location = <<"A","i","r","p","o","r","t">>
        /\ (~InText({ <<"f","l","i","g","h","t">>, <<"b","o","a","r","d","i","n","g">>, <<"g","a","t","e">>, <<"a","i","r","p","o","r","t">> })
            /\ ~InText({ <<"t","r","a","i","n">>, <<"p","l","a","t","f","o","r","m">>, <<"c","o","a","c","h">> })
            /\ SomeLabelContains({ <<"v","e","h","i","c","l","e">>, <<"e","n","g","i","n","e">>, <<"t","r","a","f","f","i","c">>, <<"h","o","r","n">> }))
               => ret.location = <<"R","o","a","d">>

\* C6: without a matching rule and without an emergency signal the result is
\* complete: "Unknown", "Unknown", 0.3, no evidence; every call returns a
\* result with the six keys.
C6_DefaultVerdict ==
    Called =>
        /\ { "location", "situation", "confidence", "evidence", "summary", "transcribed" }
               \subseteq DOMAIN ret
        /\ (~AirportCase /\ ~RailwayCase /\ ~RoadCase /\ ~EmergencySignal) =>
               /\ ret.location = <<"U","n","k","n","o","w","n">>
               /\ ret.situation = <<"U","n","k","n","o","w","n">>
               /\ ret.confidence = 300
               /\ ret.evidence = << >>

\* the empty transcript with no labels
C6_Witness ==
    /\ Called
    /\ arg_text = << >>
    /\ arg_sounds = << >>
    /\ ret.location = <<"U","n","k","n","o","w","n">>
    /\ ret.confidence = 300

\* the location the airport/railway/road chain selects for the arguments
ChainLocation ==
    IF AirportCase THEN <<"A","i","r","p","o","r","t">>
    ELSE IF RailwayCase THEN <<"R","a","i","l","w","a","y"," ","S","t","a","t","i","o","n">>
    ELSE IF RoadCase THEN <<"R","o","a","d">>
    ELSE <<"U","n","k","n","o","w","n">>

IsEmergencyResult == Called /\ ret.situation = <<"E","m","e","r","g","e","n","c","y">>

\* C14: the emergency override leaves the location untouched: an emergency
\* result carries the location the airport/railway/road chain selects for
\* the same transcript and labels, one of the four locations.
C14_EmergencyKeepsLocation ==
    IsEmergencyResult =>
        /\ ret.location = ChainLocation
        /\ ret.location \in { <<"A","i","r","p","o","r","t">>, <<"R","a","i","l","w","a","y"," ","S","t","a","t","i","o","n">>, <<"R","o","a","d">>, <<"U","n","k","n","o","w","n">> }

\* an emergency result at each of the four locations
C14_EmergencyAtAirport == IsEmergencyResult /\ ret.location = <<"A","i","r","p","o","r","t">>
C14_EmergencyAtRoad == IsEmergencyResult /\ ret.location = <<"R","o","a","d">>
C14_EmergencyAtUnknown == IsEmergencyResult /\ ret.location = <<"U","n","k","n","o","w","n">>
\* an emergency word in a transcript the railway rule matched
C14_Witness ==
    /\ IsEmergencyResult
    /\ RailwayCase /\ ~AirportCase
    /\ InText({ <<"h","e","l","p">> })
    /\ ret.location = <<"R","a","i","l","w","a","y"," ","S","t","a","t","i","o","n">>

\* the same string in other letter case
ToUpper ==
    [c \in { LowerLetters[i] : i \in 1..26 } |->
        UpperLetters[CHOOSE i \in 1..26 : LowerLetters[i] = c]]
UpperChar(c) == IF c \in DOMAIN ToUpper THEN ToUpper[c] ELSE c
Upper(s) == [i \in 1..Len(s) |-> UpperChar(s[i])]
SwapCase(s) == [i \in 1..Len(s) |-> IF UpperChar(s[i]) = s[i] THEN LowerChar(s[i]) ELSE UpperChar(s[i])]
\* every second letter upper case, the others lower case
Alternate(s) == [i \in 1..Len(s) |-> IF i % 2 = 0 THEN UpperChar(s[i]) ELSE LowerChar(s[i])]
Recase(k, s) ==
    CASE k = "upper" -> Upper(s)
      [] k = "swap" -> SwapCase(s)
      [] k = "alternate" -> Alternate(s)
Recasings == {"upper", "swap", "alternate"}
RecaseKeys(k, d) == [i \in 1..Len(d) |-> <<Recase(k, d[i][1]), d[i][2]>>]

\* C15: changing the letter case of the transcript and of the sound-label
\* keys changes no field of the result: the call with the arguments in any
\* other letter case returns what the call returned.
C15_CaseInsensitive ==
    Called =>
        \A kt, ks \in Recasings :
            analyze_audio(Recase(kt, arg_text), RecaseKeys(ks, arg_sounds)) = ret

\* a transcript and a label with capitals that decided the result
C15_Witness ==
    /\ Called
    /\ arg_text # Lower(arg_text)
    /\ Len(arg_sounds) > 0 /\ arg_sounds[1][1] # Lower(arg_sounds[1][1])
    /\ AirportCase
    /\ ret.location = <<"A","i","r","p","o","r","t">>
    /\ analyze_audio(Upper(arg_text), RecaseKeys("swap", arg_sounds)) = ret
    /\ Upper(arg_text) # arg_text

\* C16: the confidence returned is one of 0.3, 0.7, 0.8, 0.85, 0.95; it is
\* 0.95 exactly when the situation is "Emergency"; the 0.9 of the keyword
\* override is never returned.
C16_ConfidenceValues ==
    Called =>
        /\ ret.confidence \in {300, 700, 800, 850, 950}
        /\ (ret.confidence = 950) <=> (ret.situation = <<"E","m","e","r","g","e","n","c","y">>)
        /\ ret.confidence # 900

\* an emergency word after the default verdict: the override computed
\* max(0.3, 0.9) and 0.95 was returned
C16_Witness ==
    /\ Called
    /\ InText({ <<"h","e","l","p">>, <<"f","i","r","e">>, <<"e","m","e","r","g","e","n","c","y">>, <<"p","o","l","i","c","e">>, <<"a","c","c","i","d","e","n","t">> })
    /\ ~AirportCase /\ ~RailwayCase /\ ~RoadCase
    /\ ~SomeLabelContains({ <<"s","i","r","e","n">>, <<"s","c","r","e","a","m">>, <<"a","l","a","r","m">>, <<"g","l","a","s","s">>, <<"s","h","o","u","t","i","n","g">> })
    /\ ret.situation = <<"E","m","e","r","g","e","n","c","y">>
    /\ ret.confidence = 950

\* the evidence strings the rules and the keyword override write
RuleEvidenceStrings ==
    { <<"F","l","i","g","h","t","-","r","e","l","a","t","e","d"," ","s","p","e","e","c","h">>, <<"P","u","b","l","i","c"," ","c","r","o","w","d"," ","s","o","u","n","d","s">>, <<"T","r","a","i","n","-","r","e","l","a","t","e","d"," ","s","p","e","e","c","h">>,
      <<"C","r","o","w","d"," ","s","o","u","n","d","s">>, <<"V","e","h","i","c","l","e"," ","s","o","u","n","d","s"," ","d","e","t","e","c","t","e","d">>, <<"E","m","e","r","g","e","n","c","y"," ","k","e","y","w","o","r","d","s"," ","d","e","t","e","c","t","e","d">> }

\* C17: the evidence of an emergency result is the list of the lower-cased
\* sound labels in input order; no evidence string of a rule or of the
\* keyword override occurs in it.
C17_EmergencyEvidence ==
    IsEmergencyResult =>
        /\ ret.evidence = [i \in 1..Len(arg_sounds) |-> Lower(arg_sounds[i][1])]
        /\ \A i \in 1..Len(ret.evidence) : ret.evidence[i] \notin RuleEvidenceStrings

\* the airport rule and the keyword override both collected evidence, and
\* the result shows the two labels in the order given
C17_Witness ==
    /\ IsEmergencyResult
    /\ AirportCase
    /\ InText({ <<"h","e","l","p">> })
    /\ Len(arg_sounds) = 2
    /\ arg_sounds[1][1] = <<"V","e","h","i","c","l","e">> /\ arg_sounds[2][1] = <<"C","r","o","w","d">>
    /\ ret.evidence = << <<"v","e","h","i","c","l","e">>, <<"c","r","o","w","d">> >>

ResultKeys == { "location", "situation", "confidence", "evidence", "summary", "transcribed" }

\* C18: every result has the keys location, situation, confidence,
\* evidence, summary and transcribed, an emergency result confidence_reason
\* as well; transcribed is the lower-cased transcript; the location and
\* situation of a non-emergency result are one of the four pairs
\* Airport/Boarding, Railway Station/Waiting / Boarding, Road/Traffic,
\* Unknown/Unknown.
C18_ResultShape ==
    Called =>
        /\ ResultKeys \subseteq DOMAIN ret
        /\ DOMAIN ret =
               ResultKeys \cup (IF ret.situation = <<"E","m","e","r","g","e","n","c","y">> THEN {"confidence_reason"} ELSE {})
        /\ ret.transcribed = Lower(arg_text)
        /\ ret.situation # <<"E","m","e","r","g","e","n","c","y">> =>
               <<ret.location, ret.situation>> \in
                   { << <<"A","i","r","p","o","r","t">>, <<"B","o","a","r","d","i","n","g">> >>,
                     << <<"R","a","i","l","w","a","y"," ","S","t","a","t","i","o","n">>, <<"W","a","i","t","i","n","g"," ","/"," ","B","o","a","r","d","i","n","g">> >>,
                     << <<"R","o","a","d">>, <<"T","r","a","f","f","i","c">> >>,
                     << <<"U","n","k","n","o","w","n">>, <<"U","n","k","n","o","w","n">> >> }

\* a railway result for a transcript written with capitals
C18_Witness ==
    /\ Called
    /\ arg_text = <<"T","r","a","i","n"," ","h","e","l","l","o">>
    /\ ret.location = <<"R","a","i","l","w","a","y"," ","S","t","a","t","i","o","n">>
    /\ ret.situation = <<"W","a","i","t","i","n","g"," ","/"," ","B","o","a","r","d","i","n","g">>
    /\ ret.transcribed = <<"t","r","a","i","n"," ","h","e","l","l","o">>
    /\ "confidence_reason" \notin DOMAIN ret

\* ======================================================================
\* Properties of /login of src/.vscode/app (2).py, checked under DbSpec
\* ======================================================================
\* the last request was a login and it was answered
LoginAnswered == posted \in UserLogins /\ answer # NoResult

\* C13: /login enforces no authentication: whatever the email, the password
\* and the rows of table users, the answer is the token "demo_token" with
\* the email given, so it depends neither on the password nor on stored
\* state; and a login leaves the tables users and history and the files on
\* disk as they were.
C13_LoginStub ==
    /\ [](LoginAnswered =>
            answer = [status |-> 200, raised |-> FALSE,
                      body |-> [token |-> <<"d","e","m","o","_","t","o","k","e","n">>, email |-> posted.email]])
    /\ [][posted' \in UserLogins => UNCHANGED <<users, history, disk>>]_vars

\* a registered email with a password other than the stored one, and an
\* email that is not registered at all, are both answered with the token
C13_Witness ==
    /\ LoginAnswered
    /\ \E row \in users : row[1] = posted.email /\ row[2] # posted.password
    /\ \E e \in Emails : \A row \in users : row[1] # e
    /\ history # << >>
    /\ answer.status = 200
    /\ answer.body.token = <<"d","e","m","o","_","t","o","k","e","n">>

\* ======================================================================
\* Properties of the /analyze handlers, checked under Spec
\* ======================================================================
Finished == pc = "done"
Ran(steps) == \E i \in 1..Len(log) : log[i] \in steps
Before(first, then) ==
    \E i, j \in 1..Len(log) : i < j /\ log[i] \in first /\ log[j] \in then

\* a step counts as run whether it returned or raised
SaveStep == {"save", "save_raised"}
TranscribeStep == {"transcribe", "transcribe_raised"}
ClassifyStep == {"classify", "classify_raised"}
FuseStep == {"fuse"}
CleanupStep == {"cleanup", "cleanup_raised"}

\* the request ended with the result of the rule function
Successful(h) ==
    /\ handler = h
    /\ Finished
    /\ ~response.raised
    /\ response.status = 200
    /\ Ran(FuseStep)

\* the place of a step of src/app.py in save, transcribe, classify, fuse, cleanup
StepRank(step) ==
    CASE step \in SaveStep -> 1
      [] step \in TranscribeStep -> 2
      [] step \in {"load", "load_raised"} -> 3
      [] step \in ClassifyStep -> 4
      [] step \in FuseStep \cup {"fallback"} -> 5
      [] step \in CleanupStep -> 6

\* C7: in src/app.py every request runs save, transcribe, classify, fuse,
\* cleanup in that order, fuses only after transcription and classification
\* completed, and ends with the temp-file removal, also when it failed.
C7_RequestFlowOrder ==
    handler = "app" =>
        /\ \A i, j \in 1..Len(log) : i < j => StepRank(log[i]) < StepRank(log[j])
        /\ Ran(FuseStep) =>
               (Before({"transcribe"}, FuseStep) /\ Before({"classify"}, FuseStep))
        /\ Finished => log[Len(log)] \in CleanupStep

\* C8 as stated: each of the three other handlers runs, on a successful
\* request, save, transcribe, classify, rules and cleanup in that order.
C8_SameOrderInOtherHandlers ==
    \A h \in {"pycache", "chatgpt", "vscode"} :
        Successful(h) =>
            /\ Before(SaveStep, TranscribeStep)
            /\ Before(TranscribeStep, ClassifyStep)
            /\ Before(ClassifyStep, FuseStep)
            /\ Before(FuseStep, CleanupStep)

\* C8, amended: on a successful request all three save first and apply
\* their rules after classification, but only src/.vscode/app (2).py runs
\* save, transcribe, classify, rules, cleanup; src/__pycache__/app.py
\* removes the temp file before the rules are applied, and
\* src/chat gpt/app.py transcribes after the rules and cleans up last.
C8_HandlerOrders ==
    /\ Successful("vscode") =>
           /\ Len(log) = 5
           /\ log[1] = "save" /\ log[2] \in TranscribeStep /\ log[3] = "classify"
           /\ log[4] = "fuse" /\ log[5] = "cleanup"
    /\ Successful("pycache") =>
           /\ Len(log) = 6
           /\ log[1] = "save" /\ log[2] \in TranscribeStep /\ log[3] = "load"
           /\ log[4] = "classify" /\ log[5] = "cleanup" /\ log[6] = "fuse"
    /\ Successful("chatgpt") =>
           /\ Len(log) = 6
           /\ log[1] = "save" /\ log[2] = "load" /\ log[3] = "classify"
           /\ log[4] = "fuse" /\ log[5] \in TranscribeStep /\ log[6] \in CleanupStep

\* a successful request of src/chat gpt/app.py: the rules ran before whisper
C8_Witness ==
    /\ Successful("chatgpt")
    /\ Before(FuseStep, {"transcribe"})
    /\ response.body.transcribed # << >>

\* C9: once a request has finished, however it ended, no temp file made for
\* it remains on disk.
C9_NoTempFileRemains ==
    Finished => \A f \in disk : f[2] # req

\* some step of the try block of src/app.py raised
TryRaised ==
    /\ handler = "app"
    /\ Ran({"transcribe_raised", "load_raised", "classify_raised"})

IsFallbackResponse ==
    /\ ~response.raised
    /\ response.status = 200
    /\ response.body.location = <<"U","n","k","n","o","w","n">>
    /\ response.body.situation = <<"U","n","k","n","o","w","n">>
    /\ response.body.confidence = 0
    /\ response.body.evidence = << >>
    /\ response.body.transcribed = << >>
    /\ "error" \in DOMAIN response.body

AppFused == handler = "app" /\ Ran(FuseStep)

FilterKeywords ==
    { <<"s","p","e","e","c","h">>, <<"c","o","n","v","e","r","s","a","t","i","o","n">>, <<"c","r","o","w","d">>, <<"v","e","h","i","c","l","e">>, <<"e","n","g","i","n","e">>, <<"t","r","a","f","f","i","c">>,
      <<"a","i","r","c","r","a","f","t">>, <<"s","i","r","e","n">> }
EmergencySounds == { <<"s","i","r","e","n">>, <<"s","c","r","e","a","m">>, <<"a","l","a","r","m">>, <<"g","l","a","s","s">>, <<"s","h","o","u","t","i","n","g">> }
HoldsOneOf(words, label) == \E w \in words : Contains(w, Lower(label))

\* the columns of the ten highest mean scores of clip c
TopTen(c) ==
    { i \in 1..Len(labels) :
        Cardinality({ j \in 1..Len(labels) : MeanScores(c)[j] > MeanScores(c)[i] }) < 10 }

\* C19: in src/app.py every label handed to analyze_audio holds a filter
\* keyword; a detected label with an emergency sound but no filter keyword
\* does not reach the fusion, so the response is an Emergency only through
\* the transcript or through a detected label that holds a filter keyword too.
C19_OnlyFilteredLabelsReachFusion ==
    AppFused =>
        /\ \A i \in 1..Len(sounds) : HoldsOneOf(FilterKeywords, sounds[i][1])
        /\ response.body.situation = <<"E","m","e","r","g","e","n","c","y">> =>
               \/ HoldsOneOf({ <<"h","e","l","p">>, <<"f","i","r","e">>, <<"e","m","e","r","g","e","n","c","y">>, <<"p","o","l","i","c","e">>, <<"a","c","c","i","d","e","n","t">> }, text)
               \/ \E i \in TopTen(audio) :
                      /\ HoldsOneOf(FilterKeywords, labels[i])
                      /\ HoldsOneOf(EmergencySounds, labels[i])

\* "Screaming" was among the ten detected labels, was not handed on, and the
\* response is the airport verdict
C19_Witness ==
    /\ AppFused
    /\ Finished
    /\ \E i \in TopTen(audio) : labels[i] = <<"S","c","r","e","a","m","i","n","g">>
    /\ \A i \in 1..Len(sounds) : sounds[i][1] # <<"S","c","r","e","a","m","i","n","g">>
    /\ Len(sounds) > 0
    /\ response.body.situation = <<"B","o","a","r","d","i","n","g">>

\* C20: in src/app.py the sounds handed to the fusion are among the ten
\* labels with the highest mean score of the clip: at most ten entries, each
\* a label with its own mean score, and no label outside the ten, whether
\* or not it holds a filter keyword.
C20_SoundsWithinTopTen ==
    AppFused =>
        /\ Len(sounds) <= 10
        /\ \A k \in 1..Len(sounds) :
               \E i \in TopTen(audio) : sounds[k] = <<labels[i], MeanScores(audio)[i]>>
        /\ \A i \in (1..Len(labels)) \ TopTen(audio) :
               \A k \in 1..Len(sounds) : sounds[k][1] # labels[i]

\* "Engine" holds a filter keyword and scored outside the ten: it is not
\* among the sounds handed on, which are not empty
C20_Witness ==
    /\ AppFused
    /\ \E i \in (1..Len(labels)) \ TopTen(audio) :
           labels[i] = <<"E","n","g","i","n","e">> /\ HoldsOneOf(FilterKeywords, labels[i])
    /\ Len(sounds) > 0
    /\ \A k \in 1..Len(sounds) : sounds[k][1] # <<"E","n","g","i","n","e">>

NeuralNetworkClasses ==
    { "TransformerEncoderLayer", "AudioTransformerEncoder", "ConvolutionalAudioEncoder",
      "HybridAudioEncoder", "CrossModalAttention", "GatedFusion",
      "MultiModalFusionNetwork", "AuralisSceneClassifier", "SceneClassifierTrainer" }

\* everything the request in progress has called so far
CalledSoFar == UNION { Callees(handler, log[i]) : i \in 1..Len(log) }

\* C12: from the receipt of a request to its response no /analyze handler
\* constructs or calls a class of src/Backend/models.
C12_NoNeuralNetworkCall ==
    CalledSoFar \cap NeuralNetworkClasses = {}

\* a request of src/app.py that ran to its end through both pretrained
\* models and the rules
C12_Witness ==
    /\ Successful("app")
    /\ log[Len(log)] = "cleanup"
    /\ {Whisper, Yamnet, "analyze_audio", "os.remove"} \subseteq CalledSoFar

====
